---------------------------- MODULE Spec2Model ----------------------------
(***************************************************************************)
(* A model of the SQL statement builder of sql-strings: the function       *)
(* SQL(template, ...values), the callable handle `append` it returns, and  *)
(* the handle's iterator.                                                  *)
(*                                                                         *)
(* A JavaScript string is a sequence of one-character strings.  A bound    *)
(* value is an opaque token (itself written as a short string).  The       *)
(* array `append.values` is a heap object: handles and result objects hold *)
(* a reference to it (its index in `arrays`), never a copy.                *)
(***************************************************************************)
EXTENDS Integers, Sequences

\* ------------------------------------------------------------- bounds

\* Calls that get past the dispatch and mutate a handle (the constructor's
\* own append included), summed over all handles.
MaxAppends == 2
\* Fragments in one template array.
MaxParts == 3

\* ------------------------------------------------------------- inputs

\* The characters of literal text: a plain letter, and the characters the
\* builder itself uses to write its placeholders.
Chars == { "a", "?", "$", "1" }

\* Literal strings: the empty string and the one-character strings.
Strings == { <<>> } \cup { <<c>> : c \in Chars }

\* Literal strings free of placeholder characters.
PlainStrings == { <<>>, <<"a">> }

\* Bound values.
Vals == { <<"x">>, <<"y">> }

\* The handles a behaviour may construct: two statements are enough to tell
\* a statement's own state from another's.
Handles == {1, 2}

\* "No such handle": the slot of a handle that was not constructed.
Absent == [append |-> 0, text |-> <<>>, sql |-> <<>>, values |-> 0]

\* The first argument of a call, by the cases the dispatch tells apart.
Undefined == [tag |-> "undefined", str |-> <<>>, parts |-> <<>>]
UseBind == [tag |-> "symbol", str |-> <<>>, parts |-> <<>>]
NullArg == [tag |-> "null", str |-> <<>>, parts |-> <<>>]
NumberArg == [tag |-> "number", str |-> <<>>, parts |-> <<>>]
StringArg(s) == [tag |-> "string", str |-> s, parts |-> <<>>]
ArrayArg(p) == [tag |-> "array", str |-> <<>>, parts |-> p]

RECURSIVE TotalLen(_)
TotalLen(parts) ==
    IF parts = <<>> THEN 0 ELSE Len(Head(parts)) + TotalLen(Tail(parts))

\* Template arrays: one fragment of any literal string, or 2 .. MaxParts
\* plain fragments of which at most one is not empty.
PartLists ==
    { <<s>> : s \in Strings }
        \cup { p \in UNION { [1..n -> PlainStrings] : n \in 2..MaxParts } :
                 TotalLen(p) <= 1 }

\* Lists of m values in which neighbours differ, so that a swap of two
\* values shows.
ValueLists(m) ==
    { v \in [1..m -> Vals] : \A i \in 1..(m - 1) : v[i] # v[i + 1] }

\* A call's arguments: the first argument and the rest (...values).
Args(template, values) == [template |-> template, values |-> values]

\* The tagged-template form: one value fewer than fragments.
InterleavedCalls ==
    UNION { { Args(ArrayArg(p), v) : v \in ValueLists(Len(p) - 1) } :
            p \in PartLists }

\* The raw form: one string and nothing else.
RawCalls == { Args(StringArg(s), <<>>) : s \in Strings }

\* Misuse that still appends: an extra argument after a raw string, and
\* a template array of empty fragments with one value too many or too few.
MisuseCalls ==
    { Args(StringArg(s), <<<<"x">>>>) : s \in PlainStrings }
        \cup UNION { { Args(ArrayArg([i \in 1..n |-> <<>>]), [i \in 1..m |-> <<"x">>]) :
                         m \in {n - 2, n} \cap Nat } : n \in 1..MaxParts }

\* Every call that appends.
AppendCalls == InterleavedCalls \cup RawCalls \cup MisuseCalls

\* Finalizations, each alone and with an extra argument.
FinalizeCalls ==
    { Args(t, v) : t \in {Undefined, UseBind}, v \in {<<>>, <<<<"x">>>>} }

\* Calls whose first argument makes line 201 throw.
ThrowingCalls ==
    { Args(t, <<>>) : t \in {NullArg, NumberArg, ArrayArg(<<>>)} }
        \cup { Args(ArrayArg(<<>>), <<<<"x">>>>) }

\* The appends of the specification of all operations: the text "a" raw,
\* with a misplaced extra argument, and as the first fragment of a template.
FewAppendCalls ==
    { c \in AppendCalls :
        \/ c.template.tag = "string" /\ c.template.str = <<"a">>
        \/ /\ c.template.tag = "array"
           /\ c.template.parts[1] = <<"a">>
           /\ Len(c.values) = Len(c.template.parts) - 1 }

\* The calls that leave the statement as it is.
QuietCalls == FinalizeCalls \cup ThrowingCalls

\* The calls of the specification of all operations.
AllCalls == FewAppendCalls \cup QuietCalls

\* ------------------------------------------------------------- strings

Digit(d) == CASE d = 0 -> "0" [] d = 1 -> "1" [] d = 2 -> "2" [] d = 3 -> "3"
              [] d = 4 -> "4" [] d = 5 -> "5" [] d = 6 -> "6" [] d = 7 -> "7"
              [] d = 8 -> "8" [] d = 9 -> "9"

\* String(n) for a non-negative integer: its decimal digits.
RECURSIVE NumberToString(_)
NumberToString(n) ==
    IF n < 10 THEN <<Digit(n)>>
    ELSE NumberToString(n \div 10) \o <<Digit(n % 10)>>

\* Mutant: the numbering restarts at each call (i instead of
\* append.values.length + i).
NumberedStepLocal(acc, part, i, len) ==
    acc \o <<"$">> \o NumberToString(i) \o part

\* Mutant: the placeholder is written after the fragment, not before it.
NumberedStepAfter(acc, part, i, len) ==
    acc \o part \o <<"$">> \o NumberToString(len + i)

\* The callback of the reduce: acc + '$' + (append.values.length + i) + part.
NumberedStep(acc, part, i, len) ==
    acc \o <<"$">> \o NumberToString(len + i) \o part

\* template.reduce(callback) with no initial value, on a non-empty array:
\* acc starts as template[0] and the callback runs for i = 1 .. n-1
\* (0-based), which is parts[2] .. parts[n] here.
RECURSIVE ReduceFrom(_, _, _, _)
ReduceFrom(parts, k, acc, len) ==
    IF k > Len(parts) THEN acc
    ELSE ReduceFrom(parts, k + 1, NumberedStep(acc, parts[k], k - 1, len), len)

\* Mutant: reduce(callback, '') with an initial value runs the callback
\* for the first fragment too.
ReduceNumberedFromEmpty(parts, len) == ReduceFrom(parts, 1, <<>>, len)

ReduceNumbered(parts, len) == ReduceFrom(parts, 2, parts[1], len)

\* template.join('?') on a non-empty array.
RECURSIVE JoinFrom(_, _, _)
JoinFrom(parts, k, acc) ==
    IF k > Len(parts) THEN acc
    ELSE JoinFrom(parts, k + 1, acc \o <<"?">> \o parts[k])

\* Mutant: join() with its default separator, a comma.
RECURSIVE JoinCommaFrom(_, _, _)
JoinCommaFrom(parts, k, acc) ==
    IF k > Len(parts) THEN acc
    ELSE JoinCommaFrom(parts, k + 1, acc \o <<",">> \o parts[k])

JoinDefault(parts) ==
    IF Len(parts) = 0 THEN <<>> ELSE JoinCommaFrom(parts, 2, parts[1])

JoinQuestion(parts) ==
    IF Len(parts) = 0 THEN <<>> ELSE JoinFrom(parts, 2, parts[1])


\* ------------------------------------------------------------- state

VARIABLES
    objs,    \* handle id -> the function object `append` and its properties
    arrays,  \* array id -> the contents of that `append.values` array
    ret,     \* what the last operation returned, yielded or threw
    last,    \* the last operation and its arguments
    log      \* handle id -> the appends that have completed on it, in order

vars == <<objs, arrays, ret, last, log>>

\* ------------------------------------------------------------- append

\* Line 188: the call is a finalization.
IsFinalize(template) == template.tag \in {"undefined", "symbol"}

\* Mutant: the plain result's query is the `$n` text.
ResultObjectQueryText(o, template) ==
    IF template.tag = "symbol"
    THEN [kind |-> "bind", query |-> o.text, bind |-> o.values]
    ELSE [kind |-> "result", sql |-> o.sql, text |-> o.text,
          query |-> o.text, values |-> o.values]

\* Mutant: the bind result's query is the `?` text.
ResultObjectBindSql(o, template) ==
    IF template.tag = "symbol"
    THEN [kind |-> "bind", query |-> o.sql, bind |-> o.values]
    ELSE [kind |-> "result", sql |-> o.sql, text |-> o.text,
          query |-> o.sql, values |-> o.values]

\* Mutant: the plain result's text is the `?` text, like its sql.
ResultObjectTextSql(o, template) ==
    IF template.tag = "symbol"
    THEN [kind |-> "bind", query |-> o.text, bind |-> o.values]
    ELSE [kind |-> "result", sql |-> o.sql, text |-> o.sql,
          query |-> o.sql, values |-> o.values]

\* Lines 189-196: the object a finalization returns.  `bind` and `values`
\* are the array `append.values` itself (a reference).
ResultObject(o, template) ==
    IF template.tag = "symbol"
    THEN [kind |-> "bind", query |-> o.text, bind |-> o.values]
    ELSE [kind |-> "result", sql |-> o.sql, text |-> o.text,
          query |-> o.sql, values |-> o.values]

\* Lines 198-200: a string becomes a one-fragment template.
ToParts(template) ==
    IF template.tag = "string" THEN <<template.str>> ELSE template.parts

\* Mutant: without lines 198-200 a string reaches line 201 as it is, and a
\* string has no reduce.
ThrowsOnString(template) ==
    \/ template.tag \in {"null", "number", "string"}
    \/ template.tag = "array" /\ Len(template.parts) = 0

\* Line 201 throws a TypeError before anything is assigned: null has no
\* properties, a number has no reduce, and reduce of an empty array with
\* no initial value throws.
Throws(template) ==
    \/ template.tag \in {"null", "number"}
    \/ template.tag = "array" /\ Len(template.parts) = 0

\* Mutant: the new text is put in front of the text held.
AppendTextInFront(text, parts, len) == ReduceNumbered(parts, len) \o text

\* Lines 201-203.
AppendText(text, parts, len) == text \o ReduceNumbered(parts, len)

\* Mutant: `=` for `+=`.
AppendSqlAssign(sql, parts) == JoinQuestion(parts)

\* Line 204.
AppendSql(sql, parts) == sql \o JoinQuestion(parts)

\* Mutant: unshift for push.
PushFront(array, values) == values \o array

\* Line 205.
Push(array, values) == array \o values

\* Mutant: every handle's `append` property is the first handle's function.
NewObjectShared(h) == [append |-> 1, text |-> <<>>, sql |-> <<>>, values |-> h]

\* Mutant: one values array, made once, serves every statement.
NewObjectSharedValues(h) ==
    [append |-> h, text |-> <<>>, sql |-> <<>>, values |-> 1]

\* Lines 208-210: the function object a construction creates, with its
\* `append` property referring to itself and a new, empty values array.
NewObject(h) == [append |-> h, text |-> <<>>, sql |-> <<>>, values |-> h]

\* Mutant: line 188 tests arguments.length === 0 in place of
\* template === undefined, so that undefined followed by further
\* arguments goes on to line 201, where undefined has no reduce.
InvokeByArity(os, as, t, template, values) ==
    LET o == os[t] IN
    IF template.tag = "symbol" \/ (template.tag = "undefined" /\ values = <<>>)
    THEN [ret |-> ResultObject(o, template), objs |-> os, arrays |-> as,
          appended |-> FALSE]
    ELSE IF Throws(template) \/ template.tag = "undefined"
    THEN [ret |-> [kind |-> "throw"], objs |-> os, arrays |-> as,
          appended |-> FALSE]
    ELSE LET parts == ToParts(template)
             len == Len(as[o.values])
         IN [ret |-> [kind |-> "handle", h |-> t],
             objs |-> [os EXCEPT ![t].text = AppendText(o.text, parts, len),
                                 ![t].sql = AppendSql(o.sql, parts)],
             arrays |-> [as EXCEPT ![o.values] = Push(as[o.values], values)],
             appended |-> TRUE]

\* Mutant: the values are pushed (line 205) before the text is built
\* (line 201), so a call that throws there has already pushed them.
InvokePushingFirst(os, as, t, template, values) ==
    LET o == os[t]
        pushed == [as EXCEPT ![o.values] = Push(as[o.values], values)]
    IN
    IF IsFinalize(template)
    THEN [ret |-> ResultObject(o, template), objs |-> os, arrays |-> as,
          appended |-> FALSE]
    ELSE IF Throws(template)
    THEN [ret |-> [kind |-> "throw"], objs |-> os, arrays |-> pushed,
          appended |-> FALSE]
    ELSE LET parts == ToParts(template)
             len == Len(pushed[o.values])
         IN [ret |-> [kind |-> "handle", h |-> t],
             objs |-> [os EXCEPT ![t].text = AppendText(o.text, parts, len),
                                 ![t].sql = AppendSql(o.sql, parts)],
             arrays |-> pushed,
             appended |-> TRUE]

\* The function `append` of handle t called with (template, ...values) in
\* the store (os, as): what it returns or throws, and the store it leaves.
Invoke(os, as, t, template, values) ==
    LET o == os[t] IN
    IF IsFinalize(template)
    THEN [ret |-> ResultObject(o, template), objs |-> os, arrays |-> as,
          appended |-> FALSE]
    ELSE IF Throws(template)
    THEN [ret |-> [kind |-> "throw"], objs |-> os, arrays |-> as,
          appended |-> FALSE]
    ELSE LET parts == ToParts(template)
             len == Len(as[o.values])
         IN [ret |-> [kind |-> "handle", h |-> t],
             objs |-> [os EXCEPT ![t].text = AppendText(o.text, parts, len),
                                 ![t].sql = AppendSql(o.sql, parts)],
             arrays |-> [as EXCEPT ![o.values] = Push(as[o.values], values)],
             appended |-> TRUE]

\* ------------------------------------------------------------- actions

\* The appends that have completed, on all handles.
Appends == Len(log[1]) + Len(log[2])

Live(h) == objs[h] # Absent

\* The call gets past the dispatch and line 201: it appends.
Mutates(template) == ~IsFinalize(template) /\ ~Throws(template)

NoOp == [op |-> "none", h |-> 0, via |-> "none", template |-> Undefined,
         values |-> <<>>]

Init ==
    /\ objs = [h \in Handles |-> Absent]
    /\ arrays = [h \in Handles |-> <<>>]
    /\ ret = [kind |-> "none"]
    /\ last = NoOp
    /\ log = [h \in Handles |-> <<>>]

\* Mutant: line 211 passes the template on without the values.
ConstructWithoutValues(template, values) ==
    \E h \in Handles :
        /\ ~Live(h)
        /\ \A g \in Handles : g < h => Live(g)
        /\ Mutates(template) => Appends < MaxAppends
        /\ \E r \in {Invoke([objs EXCEPT ![h] = NewObject(h)],
                              [arrays EXCEPT ![h] = <<>>], h, template, <<>>)} :
              /\ last' = [op |-> "construct", h |-> h, via |-> "SQL",
                          template |-> template, values |-> values]
              /\ IF r.ret.kind = "throw"
                 THEN /\ ret' = r.ret
                      /\ UNCHANGED <<objs, arrays, log>>
                 ELSE /\ ret' = [kind |-> "handle", h |-> h]
                      /\ objs' = r.objs
                      /\ arrays' = r.arrays
                      /\ log' = IF r.appended
                                THEN [log EXCEPT ![h] = <<[template |-> template,
                                                           values |-> values]>>]
                                ELSE log

\* SQL(template, ...values), lines 186-217.
Construct(template, values) ==
    \E h \in Handles :
        /\ ~Live(h)
        /\ \A g \in Handles : g < h => Live(g)
        /\ Mutates(template) => Appends < MaxAppends
        /\ \E r \in {Invoke([objs EXCEPT ![h] = NewObject(h)],
                              [arrays EXCEPT ![h] = <<>>], h, template, values)} :
              /\ last' = [op |-> "construct", h |-> h, via |-> "SQL",
                          template |-> template, values |-> values]
              /\ IF r.ret.kind = "throw"
                 THEN /\ ret' = r.ret
                      /\ UNCHANGED <<objs, arrays, log>>
                 ELSE /\ ret' = [kind |-> "handle", h |-> h]
                      /\ objs' = r.objs
                      /\ arrays' = r.arrays
                      /\ log' = IF r.appended
                                THEN [log EXCEPT ![h] = <<[template |-> template,
                                                           values |-> values]>>]
                                ELSE log

\* handle(template, ...values) or handle.append(template, ...values): t is
\* the function that runs and r what its one run returns and leaves.
Call(h, via, template, values) ==
    /\ Live(h)
    /\ Mutates(template) => Appends < MaxAppends
    /\ \E t \in {IF via = "append" THEN objs[h].append ELSE h} :
       \E r \in {Invoke(objs, arrays, t, template, values)} :
          /\ last' = [op |-> "call", h |-> h, via |-> via,
                      template |-> template, values |-> values]
          /\ ret' = r.ret
          /\ objs' = r.objs
          /\ arrays' = r.arrays
          /\ log' = IF r.appended
                    THEN [log EXCEPT ![t] = Append(@, [template |-> template,
                                                       values |-> values])]
                    ELSE log

\* Mutant: the generator yields the `$n` text first.
GeneratorText(o, as) == <<o.text>> \o as[o.values]

\* Lines 212-215: what the generator yields, with `this` the handle.
Generator(o, as) == <<o.sql>> \o as[o.values]

\* Mutant: the iterator takes the values out of the array as it yields them.
IterateDraining(h) ==
    /\ Live(h)
    /\ last' = [op |-> "iterate", h |-> h, via |-> "iterator",
                template |-> Undefined, values |-> <<>>]
    /\ ret' = [kind |-> "sequence", items |-> Generator(objs[h], arrays)]
    /\ arrays' = [arrays EXCEPT ![objs[h].values] = <<>>]
    /\ UNCHANGED <<objs, log>>

\* [...handle]: the handle's iterator run to its end.
Iterate(h) ==
    /\ Live(h)
    /\ last' = [op |-> "iterate", h |-> h, via |-> "iterator",
                template |-> Undefined, values |-> <<>>]
    /\ ret' = [kind |-> "sequence", items |-> Generator(objs[h], arrays)]
    /\ UNCHANGED <<objs, arrays, log>>

\* Reading handle.sql, handle.text and handle.values.
ReadAttrs(h) ==
    /\ Live(h)
    /\ last' = [op |-> "read", h |-> h, via |-> "property",
                template |-> Undefined, values |-> <<>>]
    /\ ret' = [kind |-> "attrs", sql |-> objs[h].sql, text |-> objs[h].text,
               values |-> objs[h].values]
    /\ UNCHANGED <<objs, arrays, log>>

\* The calls offered in a state: every call of `calls` while the bound on
\* appends allows one more, and after that the calls that do not append.
Offered(calls, quiet) == IF Appends < MaxAppends THEN calls ELSE quiet

\* Every operation of the interface.
Next ==
    \/ \E c \in Offered(AllCalls, QuietCalls) : Construct(c.template, c.values)
    \/ \E h \in Handles, via \in {"handle", "append"},
          c \in Offered(AllCalls, QuietCalls) :
           Call(h, via, c.template, c.values)
    \/ \E h \in Handles : Iterate(h)
    \/ \E h \in Handles : ReadAttrs(h)

Spec == Init /\ [][Next]_vars

\* Construction and appends on the handle only, over every appending call.
NextAppend ==
    \/ \E c \in Offered(AppendCalls, {}) : Construct(c.template, c.values)
    \/ \E h \in Handles, c \in Offered(AppendCalls, {}) :
           Call(h, "handle", c.template, c.values)

SpecAppend == Init /\ [][NextAppend]_vars

\* ------------------------------------------------------------- reading

\* The statement a handle holds.
Sql(h) == objs[h].sql
Text(h) == objs[h].text
Values(h) == arrays[objs[h].values]

\* Occurrences of the character c in the string s.
RECURSIVE Count(_, _)
Count(s, c) ==
    IF s = <<>> THEN 0
    ELSE (IF Head(s) = c THEN 1 ELSE 0) + Count(Tail(s), c)

\* The characters that write a number.
DigitChars == { Digit(d) : d \in 0..9 }

IsDigit(c) == c \in DigitChars
DigitValue(c) == CHOOSE d \in 0..9 : Digit(d) = c

\* The end of the run of digits of s that starts at position i (i - 1 when
\* s[i] is no digit).
RECURSIVE DigitsEnd(_, _)
DigitsEnd(s, i) ==
    IF i <= Len(s) /\ IsDigit(s[i]) THEN DigitsEnd(s, i + 1) ELSE i - 1

\* The number the digits s[i..j] write.
RECURSIVE ReadNumber(_, _, _)
ReadNumber(s, i, j) ==
    IF j < i THEN 0 ELSE 10 * ReadNumber(s, i, j - 1) + DigitValue(s[j])

\* The numbered placeholders of s, left to right: each `$` that digits
\* follow, read with all the digits that follow it.
RECURSIVE PlaceholdersFrom(_, _)
PlaceholdersFrom(s, i) ==
    IF i > Len(s) THEN <<>>
    ELSE IF s[i] = "$" /\ DigitsEnd(s, i + 1) > i
    THEN <<ReadNumber(s, i + 1, DigitsEnd(s, i + 1))>>
             \o PlaceholdersFrom(s, DigitsEnd(s, i + 1) + 1)
    ELSE PlaceholdersFrom(s, i + 1)

Placeholders(s) == PlaceholdersFrom(s, 1)

\* The fragments a logged call passed: those of its array, or its string.
Fragments(c) ==
    IF c.template.tag = "string" THEN <<c.template.str>> ELSE c.template.parts

\* The call has the interleaved form (one value fewer than fragments) or
\* the raw form (a string and nothing else).
WellFormed(c) ==
    \/ c.template.tag = "array" /\ Len(c.values) = Len(c.template.parts) - 1
    \/ c.template.tag = "string" /\ c.values = <<>>

\* Every append the handle has seen, its construction included, was
\* well-formed.
WellFormedLog(h) == \A i \in 1..Len(log[h]) : WellFormed(log[h][i])

\* Every fragment the handle has been given satisfies P.
EveryFragment(h, P(_)) ==
    \A i \in 1..Len(log[h]) :
        \A k \in 1..Len(Fragments(log[h][i])) : P(Fragments(log[h][i])[k])

NoQuestionOrDollar(f) == Count(f, "?") = 0 /\ Count(f, "$") = 0
NoDollarNoLeadingDigit(f) ==
    Count(f, "$") = 0 /\ (f = <<>> \/ ~IsDigit(f[1]))

\* ------------------------------------------------------------- claims

\* C1, as stated: after construction and any well-formed appends, the
\* `?` characters of sql, the values and the numbered placeholders of text
\* are equally many.  A fragment that itself holds `?` (or `$1`) refutes it.
PlaceholderCountsEqualValues ==
    \A h \in Handles :
        Live(h) /\ WellFormedLog(h) =>
            /\ Count(Sql(h), "?") = Len(Values(h))
            /\ Len(Placeholders(Text(h))) = Len(Values(h))

\* C1, amended: the counts agree after construction and any well-formed
\* appends whose fragments and raw strings hold neither `?` nor `$`.
PlaceholderCountsEqualValuesOnPlainText ==
    \A h \in Handles :
        Live(h) /\ WellFormedLog(h) /\ EveryFragment(h, NoQuestionOrDollar) =>
            /\ Count(Sql(h), "?") = Len(Values(h))
            /\ Len(Placeholders(Text(h))) = Len(Values(h))

\* C1 witness: a handle built by two well-formed appends of such text,
\* holding two values or more.
TwoPlainAppendsWithValues ==
    \E h \in Handles :
        /\ Live(h) /\ WellFormedLog(h) /\ EveryFragment(h, NoQuestionOrDollar)
        /\ Len(log[h]) = 2
        /\ Len(Values(h)) >= 2
        /\ Count(Sql(h), "?") = Len(Values(h))

\* C2, as stated: after construction and any well-formed appends, the
\* numbered placeholders of text read $1, $2, ..., $k, k the number of
\* values.  A raw "1" appended right after a placeholder refutes it.
PlaceholdersNumberedInOrder ==
    \A h \in Handles :
        Live(h) /\ WellFormedLog(h) =>
            Placeholders(Text(h)) = [i \in 1..Len(Values(h)) |-> i]

\* C2, amended: the numbering is $1 .. $k after construction and any
\* well-formed appends whose fragments and raw strings hold no `$` and do
\* not begin with a digit.
PlaceholdersNumberedInOrderOnPlainText ==
    \A h \in Handles :
        Live(h) /\ WellFormedLog(h) /\ EveryFragment(h, NoDollarNoLeadingDigit) =>
            Placeholders(Text(h)) = [i \in 1..Len(Values(h)) |-> i]

\* C2 witness: the second of two well-formed appends added a placeholder
\* to a statement that already held one.
NumberingContinuedAcrossAppends ==
    \E h \in Handles :
        /\ Live(h) /\ WellFormedLog(h) /\ EveryFragment(h, NoDollarNoLeadingDigit)
        /\ Len(log[h]) = 2
        /\ Len(log[h][1].values) >= 1
        /\ Len(log[h][2].values) >= 1
        /\ Placeholders(Text(h)) = [i \in 1..Len(Values(h)) |-> i]

\* The fragments of parts with marks[i] written between fragment i and
\* fragment i + 1.
RECURSIVE Interleaved(_, _)
Interleaved(parts, marks) ==
    IF Len(parts) = 1 THEN parts[1]
    ELSE Interleaved(SubSeq(parts, 1, Len(parts) - 1), marks)
             \o marks[Len(parts) - 1] \o parts[Len(parts)]

\* f0 ? f1 ? ... f(n-1) and f0 $1 f1 $2 ... $(n-1) f(n-1).
QuestionMarked(parts) ==
    Interleaved(parts, [i \in 1..(Len(parts) - 1) |-> <<"?">>])
DollarNumbered(parts) ==
    Interleaved(parts, [i \in 1..(Len(parts) - 1) |-> <<"$">> \o NumberToString(i)])

\* C3: a statement constructed from n fragments and n - 1 values has
\* sql = f0 ? f1 ? ... f(n-1), text = f0 $1 f1 $2 ... $(n-1) f(n-1) and
\* the values in the order given.
ConstructionRendersTemplate ==
    (/\ last.op = "construct"
     /\ ret.kind = "handle"
     /\ last.template.tag = "array"
     /\ Len(last.values) = Len(last.template.parts) - 1)
        => /\ Sql(last.h) = QuestionMarked(last.template.parts)
           /\ Text(last.h) = DollarNumbered(last.template.parts)
           /\ Values(last.h) = last.values

\* C3 witness: SQL`a${x}${y}` was constructed, and reads a??, a$1$2, [x, y].
ConstructedFromThreeFragments ==
    /\ last.op = "construct"
    /\ last.template = ArrayArg(<< <<"a">>, <<>>, <<>> >>)
    /\ last.values = << <<"x">>, <<"y">> >>
    /\ Sql(last.h) = <<"a", "?", "?">>
    /\ Text(last.h) = <<"a", "$", "1", "$", "2">>
    /\ Values(last.h) = << <<"x">>, <<"y">> >>

\* C4: a call with one string and nothing else, on the handle or through
\* .append, appends that string to sql and to text and leaves the values
\* as they were.
RawAppendIsLiteral ==
    [][(/\ last'.op = "call"
        /\ last'.template.tag = "string"
        /\ last'.values = <<>>)
          => /\ objs'[last'.h].sql = objs[last'.h].sql \o last'.template.str
             /\ objs'[last'.h].text = objs[last'.h].text \o last'.template.str
             /\ objs'[last'.h].values = objs[last'.h].values
             /\ arrays' = arrays]_vars

\* C4 witness: a raw string went through .append onto a statement that
\* holds a value, and ends both renderings.
RawStringAppended ==
    /\ last.op = "call"
    /\ last.via = "append"
    /\ last.template.tag = "string"
    /\ last.template.str # <<>>
    /\ last.values = <<>>
    /\ Len(Values(last.h)) >= 1
    /\ Sql(last.h)[Len(Sql(last.h))] = last.template.str[1]
    /\ Text(last.h)[Len(Text(last.h))] = last.template.str[1]

\* The fragments and the values a sequence of calls supplies in all: the
\* last fragment of a call runs on into the first fragment of the next.
RECURSIVE NetFragments(_)
NetFragments(calls) ==
    IF Len(calls) = 1 THEN Fragments(calls[1])
    ELSE LET front == NetFragments(SubSeq(calls, 1, Len(calls) - 1))
             next == Fragments(calls[Len(calls)])
         IN SubSeq(front, 1, Len(front) - 1)
                \o << front[Len(front)] \o next[1] >>
                \o Tail(next)

RECURSIVE NetValues(_)
NetValues(calls) ==
    IF calls = <<>> THEN <<>>
    ELSE NetValues(SubSeq(calls, 1, Len(calls) - 1)) \o calls[Len(calls)].values

\* C5: a statement built by successive well-formed appends equals the
\* statement one call with the net fragments and values builds.
IncrementalEqualsCombined ==
    \A h \in Handles :
        Live(h) /\ log[h] # <<>> /\ WellFormedLog(h) =>
            /\ Sql(h) = AppendSql(<<>>, NetFragments(log[h]))
            /\ Text(h) = AppendText(<<>>, NetFragments(log[h]), 0)
            /\ Values(h) = Push(<<>>, NetValues(log[h]))

\* C5 witness: two appends, each with a value, make the statement that
\* one call with three fragments makes.
BuiltInTwoAppends ==
    \E h \in Handles :
        /\ Live(h) /\ WellFormedLog(h)
        /\ Len(log[h]) = 2
        /\ Len(log[h][1].values) = 1
        /\ Len(log[h][2].values) = 1
        /\ log[h][1].values # log[h][2].values
        /\ Len(NetFragments(log[h])) = 3
        /\ Text(h) = AppendText(<<>>, NetFragments(log[h]), 0)

\* C6: a call through .append does to sql, text and values, and returns,
\* what the same call on the handle itself does; and an appending call,
\* made either way, returns the handle it was made on.
CallAndAppendAgree ==
    [][last'.op = "call"
          => /\ last'.via = "append"
                  => \A r \in {Invoke(objs, arrays, last'.h, last'.template,
                                        last'.values)} :
                        /\ objs' = r.objs
                        /\ arrays' = r.arrays
                        /\ ret' = r.ret
             /\ Mutates(last'.template)
                  => ret' = [kind |-> "handle", h |-> last'.h]]_vars

\* C6 witness: the second handle's .append appended a template with a
\* value and returned the second handle.
AppendedThroughAppendProperty ==
    /\ last.op = "call"
    /\ last.via = "append"
    /\ last.h = 2
    /\ last.template.tag = "array"
    /\ Len(last.values) >= 1
    /\ ret = [kind |-> "handle", h |-> 2]
    /\ Values(2) = last.values

\* C7: a call with no arguments returns an object with the fields sql,
\* text, query and values; sql and query are the `?` rendering and values
\* is the values held, in order.
FinalizeReturnsStatement ==
    (last.op = "call" /\ last.template = Undefined /\ last.values = <<>>)
        => /\ DOMAIN ret = {"kind", "sql", "text", "query", "values"}
           /\ ret.sql = Sql(last.h)
           /\ ret.query = Sql(last.h)
           /\ arrays[ret.values] = Values(last.h)

\* C7 witness: a statement with two values was finalized; its `?`
\* rendering is not its `$n` rendering.
FinalizedWithTwoValues ==
    /\ last.op = "call" /\ last.template = Undefined /\ last.values = <<>>
    /\ ret.kind = "result"
    /\ arrays[ret.values] = << <<"x">>, <<"y">> >>
    /\ ret.query = <<"a", "?", "?">>
    /\ ret.query # Text(last.h)

\* C8: a call with SEQUELIZE_USE_BIND returns an object whose query is
\* the `$n` rendering and whose bind is the values held, the same as the
\* values a call with no arguments returns in that state.
BindFinalizeReturnsText ==
    (last.op = "call" /\ last.template = UseBind /\ last.values = <<>>)
        => /\ DOMAIN ret = {"kind", "query", "bind"}
           /\ ret.query = Text(last.h)
           /\ arrays[ret.bind] = Values(last.h)
           /\ arrays[ret.bind] =
                  arrays[Invoke(objs, arrays, last.h, Undefined, <<>>).ret.values]

\* C8 witness: a statement with two values was finalized with the
\* sentinel.
BindFinalizedWithTwoValues ==
    /\ last.op = "call" /\ last.template = UseBind /\ last.values = <<>>
    /\ ret.kind = "bind"
    /\ arrays[ret.bind] = << <<"y">>, <<"x">> >>
    /\ ret.query = <<"a", "$", "1", "$", "2">>

\* C9: iterating the handle yields 1 + values.length elements: sql, then
\* each value in order.
IterationYieldsSqlThenValues ==
    last.op = "iterate"
        => /\ ret.kind = "sequence"
           /\ Len(ret.items) = 1 + Len(Values(last.h))
           /\ ret.items[1] = Sql(last.h)
           /\ \A i \in 1..Len(Values(last.h)) :
                  ret.items[i + 1] = Values(last.h)[i]

\* C9 witness: a statement with two values was iterated.
IteratedWithTwoValues ==
    /\ last.op = "iterate"
    /\ ret.items = << <<"a", "?", "a", "?">>, <<"x">>, <<"y">> >>
    /\ Text(last.h) # Sql(last.h)

\* A finalization without further arguments, a read of the attributes or
\* an iteration.
Quiet(l) ==
    \/ l.op \in {"iterate", "read"}
    \/ l.op = "call" /\ IsFinalize(l.template) /\ l.values = <<>>

\* C10: finalizing, reading the attributes and iterating leave sql, text
\* and values as they are, and the same one repeated at once returns what
\* it returned before.
QuietOperationsChangeNothing ==
    [][Quiet(last')
          => /\ objs' = objs
             /\ arrays' = arrays
             /\ last' = last => ret' = ret]_vars

\* C10 witness: a statement that holds a value has been finalized, or
\* read, or iterated, and still holds what its appends gave it.
QuietOperationOnStatement ==
    /\ Quiet(last)
    /\ Len(log[last.h]) = 2
    /\ Len(Values(last.h)) >= 1
    /\ Sql(last.h) = AppendSql(<<>>, NetFragments(log[last.h]))
    /\ Values(last.h) = NetValues(log[last.h])

\* s is a prefix of t: t begins with the elements of s, in their order.
IsPrefix(s, t) == Len(s) <= Len(t) /\ SubSeq(t, 1, Len(s)) = s

\* C11: for every call made on the handle, the sql held before the call is
\* a prefix of the sql held after it, likewise text, and the values held
\* before are a prefix of the values held after, in the same array.
StatementIsAppendOnly ==
    [][last'.op = "call"
          => /\ IsPrefix(objs[last'.h].sql, objs'[last'.h].sql)
             /\ IsPrefix(objs[last'.h].text, objs'[last'.h].text)
             /\ objs'[last'.h].values = objs[last'.h].values
             /\ IsPrefix(arrays[objs[last'.h].values],
                         arrays'[objs'[last'.h].values])]_vars

\* C11 witness: a call added text and a value to a statement that held
\* text and a value, and what was held is still in front.
GrewBehindWhatWasHeld ==
    /\ last.op = "call"
    /\ Len(log[last.h]) = 2
    /\ log[last.h][1].values # <<>>
    /\ last.values # <<>>
    /\ Values(last.h) = log[last.h][1].values \o last.values
    /\ Len(Fragments(log[last.h][1])) = 2
    /\ IsPrefix(QuestionMarked(Fragments(log[last.h][1])), Sql(last.h))
    /\ IsPrefix(DollarNumbered(Fragments(log[last.h][1])), Text(last.h))
    /\ Len(Text(last.h)) > Len(DollarNumbered(Fragments(log[last.h][1]))) + 2

\* C12: SQL(x, ...v) ends in the same sql, text and values as an empty
\* statement (sql = '', text = '', values = []) on which append(x, ...v) is
\* called; and constructed from one plain string x alone, the statement has
\* sql = text = x and no values.  Stated of a step where one handle has
\* just been constructed from (x, ...v) and the same arguments are then
\* passed to another handle that nothing has been appended to.
ConstructionIsEmptyThenAppend ==
    [][(/\ last.op = "construct"
        /\ ret.kind = "handle"
        /\ Mutates(last.template)
        /\ last'.op = "call"
        /\ last'.h # last.h
        /\ log[last'.h] = <<>>
        /\ last'.template = last.template
        /\ last'.values = last.values)
          => /\ objs[last'.h].sql = <<>>
             /\ objs[last'.h].text = <<>>
             /\ arrays[objs[last'.h].values] = <<>>
             /\ objs'[last'.h].sql = objs'[last.h].sql
             /\ objs'[last'.h].text = objs'[last.h].text
             /\ arrays'[objs'[last'.h].values] = arrays'[objs'[last.h].values]
             /\ (last.template.tag = "string" /\ last.values = <<>>)
                  => /\ objs'[last.h].sql = last.template.str
                     /\ objs'[last.h].text = last.template.str
                     /\ arrays'[objs'[last.h].values] = <<>>]_vars

\* C12 witness: the first handle was constructed empty and then given a
\* template with two values; the second handle has had the same template
\* and values, and both hold the same statement.
EmptyThenAppendedLikeConstructed ==
    /\ last.op = "call"
    /\ last.h = 1
    /\ Len(last.values) = 2
    /\ log[1] = <<[template |-> last.template, values |-> last.values]>>
    /\ log[2] = log[1]
    /\ Sql(1) = Sql(2)
    /\ Text(1) = Text(2)
    /\ Values(1) = Values(2)
    /\ Values(1) = last.values
    /\ Text(1) # Sql(1)

\* C13, as stated: in the object a call with no arguments returns, text
\* holds the same string as sql, in every state of the statement.  A
\* statement that holds a value refutes it: its text is a$1, its sql a?.
ResultTextIsSql ==
    (last.op = "call" /\ last.template = Undefined /\ last.values = <<>>)
        => ret.text = ret.sql

\* C13, amended: in the object a call with no arguments returns, text is
\* the `$n` rendering the handle holds as its text attribute and sql is
\* the `?` rendering; the two are the same string when every call that
\* appended passed a single fragment or string, so that the statement
\* holds no builder-inserted placeholder.
ResultTextIsNumberedText ==
    (last.op = "call" /\ last.template = Undefined /\ last.values = <<>>)
        => /\ ret.text = Text(last.h)
           /\ ret.sql = Sql(last.h)
           /\ (\A i \in 1..Len(log[last.h]) :
                   Len(Fragments(log[last.h][i])) = 1)
                => ret.text = ret.sql

\* C13 witness: a statement with a value was finalized, and the result's
\* text is a$1 next to the sql a?.
FinalizedTextDiffersFromSql ==
    /\ last.op = "call" /\ last.template = Undefined /\ last.values = <<>>
    /\ ret.kind = "result"
    /\ ret.text = <<"a", "$", "1">>
    /\ ret.sql = <<"a", "?">>
    /\ arrays[ret.values] = << <<"y">> >>

\* C14: a call whose first argument is a string and which passes further
\* arguments raises no error, appends the string to sql and to text as
\* literal text, and returns the handle it was made on.
RawWithExtraArgumentsIsLenient ==
    [][(/\ last'.op = "call"
        /\ last'.template.tag = "string"
        /\ last'.values # <<>>)
          => /\ ret' = [kind |-> "handle", h |-> last'.h]
             /\ objs'[last'.h].sql = objs[last'.h].sql \o last'.template.str
             /\ objs'[last'.h].text = objs[last'.h].text \o last'.template.str]_vars

\* C14 witness: the string "a" was passed with an extra argument to a
\* statement that holds a placeholder; the call returned the handle, "a"
\* ends both renderings, and the extra argument is among the values.
RawStringWithExtraArgumentAppended ==
    /\ last.op = "call"
    /\ last.template = StringArg(<<"a">>)
    /\ last.values = << <<"x">> >>
    /\ ret = [kind |-> "handle", h |-> last.h]
    /\ Sql(last.h) = <<"?", "a">>
    /\ Text(last.h) = <<"$", "1", "a">>
    /\ Values(last.h) = << <<"y">>, <<"x">> >>

\* The array a result object holds: values of the plain result, bind of
\* the result for the sentinel.
ResultArray(r) == IF r.kind = "result" THEN r.values ELSE r.bind

\* C15: a result object a finalization returned is a snapshot; a call
\* made on the handle after it leaves the sequence the result holds as
\* values (or bind) with the length and the contents it had.  Stated of
\* the step that follows the finalization: ret is the object returned, and
\* its array is read before and after the step.
ResultIsSnapshot ==
    [][(/\ ret.kind \in {"result", "bind"}
        /\ last.op = "call"
        /\ last'.op = "call"
        /\ last'.h = last.h)
          => arrays'[ResultArray(ret)] = arrays[ResultArray(ret)]]_vars

\* What a sequence of completed calls has written: each call's fragments
\* with a placeholder between neighbours, `?` or, numbered, `$` and the
\* number of values held before the call plus the placeholder's position.
RECURSIVE Rendered(_, _)
Rendered(calls, numbered) ==
    IF calls = <<>> THEN <<>>
    ELSE LET front == SubSeq(calls, 1, Len(calls) - 1)
             parts == Fragments(calls[Len(calls)])
             base == Len(NetValues(front))
         IN Rendered(front, numbered)
                \o Interleaved(parts,
                       [i \in 1..(Len(parts) - 1) |->
                           IF numbered THEN <<"$">> \o NumberToString(base + i)
                           ELSE <<"?">>])

\* The placeholders a sequence of calls inserts: fragments - 1 for each.
RECURSIVE Inserted(_)
Inserted(calls) ==
    IF calls = <<>> THEN 0
    ELSE Inserted(Tail(calls)) + Len(Fragments(Head(calls))) - 1

\* s with each numbered placeholder (`$` and the digits after it) replaced
\* by `?`.
RECURSIVE ReplaceFrom(_, _)
ReplaceFrom(s, i) ==
    IF i > Len(s) THEN <<>>
    ELSE IF s[i] # "$" THEN <<s[i]>> \o ReplaceFrom(s, i + 1)
    ELSE LET end == DigitsEnd(s, i + 1)
         IN IF end > i THEN <<"?">> \o ReplaceFrom(s, end + 1)
            ELSE <<s[i]>> \o ReplaceFrom(s, i + 1)

ReplaceNumbered(s) == ReplaceFrom(s, 1)

\* C16: after any calls that completed, misuse shapes included, sql and
\* text are the same fragments with a placeholder at the same places,
\* fragments - 1 of them for each call: `?` in sql where text has `$n`.
\* Where the literal text has no `$` and does not begin with a digit, the
\* placeholders can be read off text, and replacing them by `?` gives sql;
\* where it has no `?` either, both renderings count the inserted ones.
RenderingsStayInSync ==
    \A h \in Handles :
        Live(h) =>
            /\ Sql(h) = Rendered(log[h], FALSE)
            /\ Text(h) = Rendered(log[h], TRUE)
            /\ EveryFragment(h, NoDollarNoLeadingDigit)
                 => ReplaceNumbered(Text(h)) = Sql(h)
            /\ EveryFragment(h, NoQuestionOrDollar)
                 => /\ Count(Sql(h), "?") = Inserted(log[h])
                    /\ Len(Placeholders(Text(h))) = Inserted(log[h])

\* C16 witness: two values were passed with two fragments and then none
\* with two more; text numbers its placeholders $1 and $3, sql reads ??,
\* and two values are held.
InSyncAfterMiscountedValues ==
    \E h \in Handles :
        /\ Live(h)
        /\ Len(log[h]) = 2
        /\ ~WellFormed(log[h][1])
        /\ ~WellFormed(log[h][2])
        /\ Text(h) = <<"$", "1", "$", "3">>
        /\ Sql(h) = <<"?", "?">>
        /\ ReplaceNumbered(Text(h)) = Sql(h)
        /\ Len(Values(h)) = 2

\* C17: the first argument alone decides what a call is.  With undefined
\* or the sentinel first, whatever follows, the call returns a result
\* object of the statement as it is and changes nothing; with a string or
\* a non-empty fragment sequence first, it returns the handle.
DispatchLooksAtFirstArgument ==
    [][last'.op = "call"
          => /\ last'.template.tag = "undefined"
                  => /\ ret'.kind = "result"
                     /\ ret'.sql = objs[last'.h].sql
                     /\ ret'.text = objs[last'.h].text
                     /\ ret'.query = objs[last'.h].sql
                     /\ ret'.values = objs[last'.h].values
                     /\ objs' = objs
                     /\ arrays' = arrays
             /\ last'.template.tag = "symbol"
                  => /\ ret'.kind = "bind"
                     /\ ret'.query = objs[last'.h].text
                     /\ ret'.bind = objs[last'.h].values
                     /\ objs' = objs
                     /\ arrays' = arrays
             /\ (\/ last'.template.tag = "string"
                 \/ /\ last'.template.tag = "array"
                    /\ last'.template.parts # <<>>)
                  => ret' = [kind |-> "handle", h |-> last'.h]]_vars

\* C17 witness: undefined was passed with a further argument to a
\* statement that holds a value; a result object came back and the
\* further argument is not among the values.
FinalizedDespiteExtraArgument ==
    /\ last.op = "call"
    /\ last.template = Undefined
    /\ last.values = << <<"x">> >>
    /\ ret.kind = "result"
    /\ ret.sql = <<"a", "?">>
    /\ arrays[ret.values] = << <<"y">> >>
    /\ Values(last.h) = << <<"y">> >>

\* C18: a call whose first argument is an empty fragment sequence, a
\* number or null raises an error and leaves sql, text and values as they
\* were before it.
BadFirstArgumentThrowsAndKeepsState ==
    [][(/\ last'.op = "call"
        /\ \/ last'.template.tag \in {"null", "number"}
           \/ /\ last'.template.tag = "array"
              /\ last'.template.parts = <<>>)
          => /\ ret' = [kind |-> "throw"]
             /\ objs' = objs
             /\ arrays' = arrays]_vars

\* C18 witness: an empty fragment sequence was passed with a value to a
\* statement built by two appends; the call threw and the statement holds
\* what the two appends gave it.
ThrewOnEmptyFragmentSequence ==
    /\ last.op = "call"
    /\ last.template = ArrayArg(<<>>)
    /\ last.values = << <<"x">> >>
    /\ ret = [kind |-> "throw"]
    /\ Len(log[last.h]) = 2
    /\ Sql(last.h) = <<"a", "?", "a">>
    /\ Text(last.h) = <<"a", "$", "1", "a">>
    /\ Values(last.h) = << <<"y">> >>

\* Handle g holds after the step what it held before it.
Untouched(g) ==
    /\ objs'[g] = objs[g]
    /\ arrays'[objs'[g].values] = arrays[objs[g].values]

\* C19: a call, an iteration or a read on one handle leaves the sql, text
\* and values of every other handle as they were; so does a construction,
\* and the handle it returns has a values array of its own.
StatementsAreIndependent ==
    [][\A g \in Handles :
          (Live(g) /\ g # last'.h)
              => /\ Untouched(g)
                 /\ (last'.op = "construct" /\ ret'.kind = "handle")
                      => objs'[last'.h].values # objs'[g].values]_vars

\* C19 witness: the first statement was constructed with a value, the
\* second has since been constructed and given another value, and each
\* holds its own.
TwoStatementsEachWithItsValue ==
    /\ last.op = "call"
    /\ last.h = 2
    /\ last.values = << <<"y">> >>
    /\ Values(2) = << <<"y">> >>
    /\ Values(1) = << <<"x">> >>
    /\ Sql(1) = <<"a", "?">>
    /\ Text(2) = <<"a", "$", "1">>
    /\ objs[1].values # objs[2].values

=============================================================================
